---- MODULE Spec2Model ----
(***************************************************************************)
(* Model of the PEA screener (screener_pea_streamlit.py) and of the PEA    *)
(* universe generator (pea_generator.py).                                  *)
(*                                                                         *)
(* A Streamlit script is re-executed top to bottom on every interaction;   *)
(* pc is the position of the current execution.  Strings are sequences of  *)
(* one-character strings so that strip(), lower(), upper() and the `in`    *)
(* substring test are computed, not assumed.  Prices and percentages are   *)
(* integers in hundredths; a contraction score is an integer in 1e-4.      *)
(***************************************************************************)
EXTENDS Integers, Sequences, FiniteSets, TLC

VARIABLES
    pc,            \* position of the execution; "stopped_<line>" after st.stop()
    uploaded_csv,  \* the uploaded file
    cfg,           \* the sidebar's values
    universe,      \* the universe table
    CAP,           \* the cap widget's value
    tickers,       \* the ticker list
    requested,     \* the list yf_bulk was called with
    prices_map,    \* ticker -> price frame
    rows,          \* the result rows
    filtered,      \* the ranked output
    ui,            \* what the page shows
    download,      \* the results file offered for download
    st_button,     \* screener: the "generate a PEA CSV" button of this run
    response,      \* the last answer of the Euronext download
    session_state, \* pea_generator: st.session_state["euronext_xls"]
    form,          \* the column mapping and options behind pea_csv
    pea_csv,       \* the pea_univers.csv offered for download
    Close,         \* compute_indicators: the Close column of its frame
    metrics        \* compute_indicators: the Bollinger part of its result

scr_vars == <<pc, uploaded_csv, cfg, universe, CAP, tickers, requested,
              prices_map, rows, filtered, ui, download>>
gen_vars == <<st_button, response, session_state, form, pea_csv>>
ind_vars == <<Close, metrics>>
vars == <<scr_vars, gen_vars, ind_vars>>

-----------------------------------------------------------------------------
(* Bounds of the model *)

\* most rows of a hand-written (small) universe file
MaxRows == 2
\* most rows of a generated (large) universe file
MaxTickers == 11
\* most tickers the market-data provider has a price history for
MaxData == 2

-----------------------------------------------------------------------------
(* Strings *)

UC == <<"A","B","C","D","E","F","G","H","I","J","K","L","M",
        "N","O","P","Q","R","S","T","U","V","W","X","Y","Z">>
LC == <<"a","b","c","d","e","f","g","h","i","j","k","l","m",
        "n","o","p","q","r","s","t","u","v","w","x","y","z">>

lower_ch(c) ==
    IF \E i \in DOMAIN UC : UC[i] = c
    THEN LC[CHOOSE i \in DOMAIN UC : UC[i] = c]
    ELSE c

upper_ch(c) ==
    IF \E i \in DOMAIN LC : LC[i] = c
    THEN UC[CHOOSE i \in DOMAIN LC : LC[i] = c]
    ELSE c

lower(s) == [i \in 1..Len(s) |-> lower_ch(s[i])]
upper(s) == [i \in 1..Len(s) |-> upper_ch(s[i])]

RECURSIVE lstrip(_)
lstrip(s) == IF s # <<>> /\ Head(s) = " " THEN lstrip(Tail(s)) ELSE s

RECURSIVE rstrip(_)
rstrip(s) ==
    IF s # <<>> /\ s[Len(s)] = " " THEN rstrip(SubSeq(s, 1, Len(s) - 1)) ELSE s

strip(s) == rstrip(lstrip(s))

\* Python's `sub in s`
contains(s, sub) ==
    \E i \in 1..(Len(s) - Len(sub) + 1) : SubSeq(s, i, i + Len(sub) - 1) = sub

Range(s) == {s[i] : i \in DOMAIN s}

SeqsUpTo(S, n) == UNION {[1..k -> S] : k \in 0..n}

-----------------------------------------------------------------------------
(* Country sets *)

EU_EEA_ISO2 ==
    { <<"A","T">>, <<"B","E">>, <<"B","G">>, <<"H","R">>, <<"C","Y">>,
      <<"C","Z">>, <<"D","K">>, <<"E","E">>, <<"F","I">>, <<"F","R">>,
      <<"D","E">>, <<"G","R">>, <<"H","U">>, <<"I","E">>, <<"I","T">>,
      <<"L","V">>, <<"L","T">>, <<"L","U">>, <<"M","T">>, <<"N","L">>,
      <<"P","L">>, <<"P","T">>, <<"R","O">>, <<"S","K">>, <<"S","I">>,
      <<"E","S">>, <<"S","E">>,
      <<"N","O">>, <<"I","S">>, <<"L","I">> }

EXCLUDE_ISO2 == { <<"G","B">>, <<"C","H">>, <<"U","S">>, <<"C","A">> }

is_pea_country(iso2) == iso2 \in EU_EEA_ISO2

-----------------------------------------------------------------------------
(* parse_universe *)

k_ticker       == <<"t","i","c","k","e","r">>
k_symbol       == <<"s","y","m","b","o","l">>
k_exchange     == <<"e","x","c","h","a","n","g","e">>
k_mic          == <<"m","i","c">>
k_name         == <<"n","a","m","e">>
k_company      == <<"c","o","m","p","a","n","y">>
k_country      == <<"c","o","u","n","t","r","y">>
k_country_code == <<"c","o","u","n","t","r","y","_","c","o","d","e">>
k_country_iso2 == <<"c","o","u","n","t","r","y","_","i","s","o","2">>
k_sector       == <<"s","e","c","t","o","r">>

cols_map ==
    (k_ticker :> "ticker") @@ (k_symbol :> "ticker") @@
    (k_exchange :> "exchange") @@ (k_mic :> "mic") @@
    (k_name :> "name") @@ (k_company :> "name") @@
    (k_country :> "country_code") @@ (k_country_code :> "country_code") @@
    (k_country_iso2 :> "country_code") @@ (k_sector :> "sector")

\* the input columns that map to canonical field f
ColsFor(df, f) ==
    { i \in DOMAIN df.cols :
        LET key == lower(strip(df.cols[i]))
        IN  key \in DOMAIN cols_map /\ cols_map[key] = f }

\* out[cols_map[key]] = ... : a later column overwrites an earlier one
HasField(df, f) == ColsFor(df, f) # {}
FieldCol(df, f) == CHOOSE i \in ColsFor(df, f) : \A j \in ColsFor(df, f) : j <= i

\* df[col].astype(str).str.strip(), or the default "" column
Field(df, r, f) ==
    IF HasField(df, f) THEN strip(df.rows[r][FieldCol(df, f)]) ELSE <<>>

RECURSIVE drop_duplicates_keep_last(_, _)
\* (variant) keep = "last"
drop_duplicates_keep_last(rs, seen) ==
    IF rs = <<>> THEN <<>>
    ELSE IF \E i \in DOMAIN Tail(rs) : Tail(rs)[i].ticker = Head(rs).ticker
         THEN drop_duplicates_keep_last(Tail(rs), seen)
         ELSE <<Head(rs)>> \o drop_duplicates_keep_last(Tail(rs), seen)

RECURSIVE drop_duplicates(_, _)
\* keep = "first": a row is kept unless an earlier kept row has its ticker
drop_duplicates(rs, seen) ==
    IF rs = <<>> THEN <<>>
    ELSE IF Head(rs).ticker \in seen
         THEN drop_duplicates(Tail(rs), seen)
         ELSE <<Head(rs)>> \o drop_duplicates(Tail(rs), seen \cup {Head(rs).ticker})

res_rows(df) ==
    [r \in DOMAIN df.rows |->
        [ticker       |-> Field(df, r, "ticker"),
         exchange     |-> Field(df, r, "exchange"),
         country_code |-> upper(Field(df, r, "country_code")),
         name         |-> Field(df, r, "name"),
         sector       |-> Field(df, r, "sector")]]

\* (variant) the check looks for an empty frame instead of a missing ticker
parse_universe_raises_if_empty(df) ==
    \A f \in {"ticker", "exchange", "mic", "name", "country_code", "sector"} :
        ~HasField(df, f)

\* raises ValueError when no column maps to ticker
parse_universe_raises(df) == ~HasField(df, "ticker")

parse_universe(df) == drop_duplicates(res_rows(df), {})

-----------------------------------------------------------------------------
(* Program constants: widget defaults and limits *)

\* np.nan
NaN == -1
isnan(x) == x = NaN

BB_WINDOW_DEFAULT == 20
BB_WINDOW_MIN == 10
ATR_WINDOW_DEFAULT == 14
ATR_WINDOW_MIN == 5
VOL_WINDOW_DEFAULT == 20
VOL_WINDOW_MIN == 5
\* df["Volume"].rolling(20)
AVG_VOL_WINDOW == 20
\* slider default 20 (percent)
BBW_PCT_THRESHOLD_DEFAULT == 20
\* slider default 2.0 %, in tenths (the slider's step)
MAX_ATR_PCT_DEFAULT == 20
\* slider default 2.5 %, in tenths (the slider's step)
MAX_SIGMA_PCT_DEFAULT == 25
\* number_input default 1.0, in hundredths
MIN_PRICE_DEFAULT == 100
MIN_AVG_VOL_DEFAULT == 50000
\* st.number_input("Cap ...", 10, 2000, min(500, len(tickers)))
CAP_MIN == 10
CAP_MAX == 2000
CAP_DEFAULT_MAX == 500

Min(a, b) == IF a <= b THEN a ELSE b
Max(a, b) == IF a >= b THEN a ELSE b

-----------------------------------------------------------------------------
(* Inputs *)

NoFile == [kind |-> "none"]
Unreadable == [kind |-> "unreadable"]

Table(cols, rws) == [kind |-> "table", cols |-> cols, rows |-> rws]

\* hand-written universe files: header variants and a few rows each
SmallSheets ==
    { [cols |-> << <<" ","T","i","c","k","e","r">>, <<"N","a","m","e">>,
                   <<"C","o","u","n","t","r","y">> >>,
       rows |-> { << <<"A">>, <<"x">>, <<"f","r">> >>,
                  << <<" ","A">>, <<"y">>, <<"U","S">> >>,
                  << <<"B"," ">>, <<"y">>, <<"F","R">> >>,
                  << <<"B">>, <<"x">>, <<"z","z">> >> }],
      [cols |-> << <<"S","Y","M","B","O","L">>,
                   <<"c","o","u","n","t","r","y","_","c","o","d","e">> >>,
       rows |-> { << <<"A">>, <<"G","B">> >>,
                  << <<"A">>, <<"N","O">> >>,
                  << <<"C">>, <<"n","o"," ">> >> }],
      [cols |-> << <<"s","y","m","b","o","l">>, <<"T","I","C","K","E","R"," ">> >>,
       rows |-> { << <<"A">>, <<"B">> >>,
                  << <<"C">>, <<"B">> >> }],
      [cols |-> << <<"N","a","m","e">>, <<"C","o","u","n","t","r","y">> >>,
       rows |-> { << <<"x">>, <<"F","R">> >>,
                  << <<"y">>, <<"U","S">> >> }],
      [cols |-> << <<"T","i","c","k","e","r","s">>,
                   <<"E","x","c","h","a","n","g","e">> >>,
       rows |-> { << <<"A">>, <<"P","a","r","i","s">> >> }] }

SmallTables ==
    UNION { { Table(sh.cols, rws) : rws \in SeqsUpTo(sh.rows, MaxRows) } :
            sh \in SmallSheets }

\* generated universe files: n distinct one-letter tickers, all French but
\* the rows listed in us
BigTable(n, us) ==
    Table(<< k_ticker, k_country >>,
          [i \in 1..n |-> << <<UC[i]>>,
                             IF i \in us THEN <<"U","S">> ELSE <<"F","R">> >>])

BigTables ==
    { BigTable(n, us) : n \in (MaxTickers - 1)..MaxTickers, us \in {{}, {2}} }

Uploads == {NoFile, Unreadable} \cup SmallTables \cup BigTables

Windows ==
    { [bb_window |-> BB_WINDOW_DEFAULT, atr_window |-> ATR_WINDOW_DEFAULT,
       vol_window |-> VOL_WINDOW_DEFAULT],
      [bb_window |-> BB_WINDOW_MIN, atr_window |-> ATR_WINDOW_MIN,
       vol_window |-> VOL_WINDOW_MIN] }

\* the sidebar: thresholds at their defaults, both windows settings, and the
\* two country check boxes
Sidebars ==
    { [force_pea |-> fp, exclude_non_eee |-> ex,
       bb_window |-> w.bb_window, atr_window |-> w.atr_window,
       vol_window |-> w.vol_window,
       bbw_pct_threshold |-> BBW_PCT_THRESHOLD_DEFAULT,
       max_atr_pct |-> MAX_ATR_PCT_DEFAULT,
       max_sigma_pct |-> MAX_SIGMA_PCT_DEFAULT,
       min_price |-> MIN_PRICE_DEFAULT,
       min_avg_vol |-> MIN_AVG_VOL_DEFAULT] :
      fp \in BOOLEAN, ex \in BOOLEAN, w \in Windows }

\* A price frame after dropna(): n rows; the last close; and the last values
\* of the rolling series, used where the frame is long enough for the window.
Px(n, hl, close, vol20, bbwp, atr, sigma) ==
    [n |-> n, hasHL |-> hl, hasVolume |-> TRUE, close |-> close,
     vol20 |-> vol20, bbw_percentile |-> bbwp, atr_pct |-> atr,
     sigma20_pct |-> sigma]

PxFrames ==
    { Px(25, TRUE, 1000, 100000, 1500, 100, 100),    \* tight
      Px(25, TRUE, 1000, 100000, 1990, 199, 249),    \* barely passing
      Px(25, TRUE, 1000, 100000, 2500, 300, 300),    \* not contracted
      Px(15, TRUE, 1000, 100000, 1500, 100, 100),    \* fewer than 20 rows
      Px(25, TRUE,   50, 100000, 1500, 100, 100),    \* below min_price
      Px(25, TRUE, 1000,  10000, 1500, 100, 100),    \* below min_avg_vol
      Px(25, FALSE, 1000, 100000, 1500, 100, 100) }  \* no High/Low columns

\* the tickers the market-data provider may know
KnownTickers == { <<UC[1]>>, <<UC[2]>>, <<UC[CAP_MIN]>>, <<UC[CAP_MIN + 1]>> }

\* what the provider has: a price frame for at most MaxData known tickers
Markets ==
    UNION { [K -> PxFrames] : K \in { S \in SUBSET KnownTickers : Cardinality(S) <= MaxData } }

-----------------------------------------------------------------------------
(* compute_indicators *)

\* KeyError on df["High"] / df["Low"], caught by the caller
compute_indicators_raises(px) == ~px.hasHL

\* A rolling(w) value of the last row is defined when the frame has at least
\* w rows; pct_change() loses the first row, so sigma needs one row more.
compute_indicators(px, bb_win, atr_win, vol_win) ==
    [close          |-> px.close,
     avg_vol_20     |-> IF px.hasVolume /\ px.n >= AVG_VOL_WINDOW
                        THEN px.vol20 ELSE NaN,
     bbw_percentile |-> IF px.n >= bb_win THEN px.bbw_percentile ELSE NaN,
     atr_pct        |-> IF px.n >= atr_win THEN px.atr_pct ELSE NaN,
     sigma20_pct    |-> IF px.n >= vol_win + 1 THEN px.sigma20_pct ELSE NaN]

-----------------------------------------------------------------------------
(* yf_bulk *)

\* data[t].dropna() for each requested ticker; a ticker without data is left
\* out.  A single-ticker download has no MultiIndex and is stored under
\* tickers[0].
yf_bulk(tks, market) ==
    [t \in { t \in DOMAIN market : t \in Range(tks) } |-> market[t]]

-----------------------------------------------------------------------------
(* Screening: practical filters, contraction conditions, score *)

\* `continue` of the two practical filters
skipped(m, c) ==
    \/ (~isnan(m.close) /\ m.close < c.min_price)
    \/ (~isnan(m.avg_vol_20) /\ m.avg_vol_20 < c.min_avg_vol)

cond_bbw(m, c) ==
    ~isnan(m.bbw_percentile) /\ m.bbw_percentile <= c.bbw_pct_threshold * 100
cond_atr(m, c) == ~isnan(m.atr_pct) /\ m.atr_pct <= c.max_atr_pct * 10
cond_sig(m, c) == ~isnan(m.sigma20_pct) /\ m.sigma20_pct <= c.max_sigma_pct * 10

passes(m, c) == cond_bbw(m, c) /\ cond_atr(m, c) /\ cond_sig(m, c)

\* round(x, 4) of the fraction num/den, in units of 1e-4; half to even
round4(num, den) ==
    LET q == num \div den
        r == num % den
    IN  IF 2 * r < den THEN q
        ELSE IF 2 * r > den THEN q + 1
        ELSE IF q % 2 = 0 THEN q ELSE q + 1

\* (variant) the percentile is not inverted: a wide band scores high
score_num_uninverted(m, c) ==
    (IF isnan(m.bbw_percentile) THEN 0
     ELSE m.bbw_percentile * c.max_atr_pct * c.max_sigma_pct)
    + (IF isnan(m.atr_pct) THEN 0
       ELSE 500 * Max(0, c.max_atr_pct * 10 - m.atr_pct) * c.max_sigma_pct)
    + (IF isnan(m.sigma20_pct) THEN 0
       ELSE 500 * Max(0, c.max_sigma_pct * 10 - m.sigma20_pct) * c.max_atr_pct)

\* score, in units of 1e-4, as the fraction score_num / score_den:
\*   (100 - bbw_percentile)/100 + 0.5*max(0, (max_atr - atr)/max_atr)
\*                              + 0.5*max(0, (max_sigma - sigma)/max_sigma)
\* with the percentages in hundredths and the two maxima in tenths
score_num(m, c) ==
    (IF isnan(m.bbw_percentile) THEN 0
     ELSE (10000 - m.bbw_percentile) * c.max_atr_pct * c.max_sigma_pct)
    + (IF isnan(m.atr_pct) THEN 0
       ELSE 500 * Max(0, c.max_atr_pct * 10 - m.atr_pct) * c.max_sigma_pct)
    + (IF isnan(m.sigma20_pct) THEN 0
       ELSE 500 * Max(0, c.max_sigma_pct * 10 - m.sigma20_pct) * c.max_atr_pct)

score_den(c) == c.max_atr_pct * c.max_sigma_pct

contraction_score(m, c) == round4(score_num(m, c), score_den(c))

result_row(row, m, c) ==
    [ticker |-> row.ticker, name |-> row.name, exchange |-> row.exchange,
     country_code |-> row.country_code, sector |-> row.sector,
     close |-> m.close, avg_vol_20 |-> m.avg_vol_20,
     bbw_percentile |-> m.bbw_percentile, atr_pct |-> m.atr_pct,
     sigma20_pct |-> m.sigma20_pct,
     contraction_match |-> passes(m, c),
     contraction_score |-> contraction_score(m, c)]

RECURSIVE screen_rows(_, _, _)
\* for _, row in universe.iterrows(): one result row or `continue`
screen_rows(uni, pm, c) ==
    IF uni = <<>> THEN <<>>
    ELSE LET row == Head(uni)
             rest == screen_rows(Tail(uni), pm, c)
         IN  IF row.ticker \notin DOMAIN pm THEN rest
             ELSE IF compute_indicators_raises(pm[row.ticker]) THEN rest
             ELSE LET m == compute_indicators(pm[row.ticker], c.bb_window,
                                              c.atr_window, c.vol_window)
                  IN  IF skipped(m, c) THEN rest
                      ELSE <<result_row(row, m, c)>> \o rest

\* results[results["contraction_match"] == True]
matches(rs) == SelectSeq(rs, LAMBDA r : r.contraction_match)

\* sort_values("contraction_score", ascending=False) with the default
\* kind="quicksort": some descending arrangement; the order among equal
\* scores is not fixed by the call.
sort_values(rs) ==
    { [i \in 1..Len(rs) |-> rs[p[i]]] :
        p \in { q \in Permutations(1..Len(rs)) :
                  \A i, j \in 1..Len(rs) :
                      i < j => rs[q[i]].contraction_score >= rs[q[j]].contraction_score } }

-----------------------------------------------------------------------------
(* Country filters *)

\* (variant) the exclusion list takes precedence over force_pea
country_filter_exclude_first(uni, c) ==
    IF c.exclude_non_eee
    THEN SelectSeq(uni, LAMBDA r : r.country_code \notin EXCLUDE_ISO2)
    ELSE IF c.force_pea
         THEN SelectSeq(uni, LAMBDA r : is_pea_country(r.country_code))
         ELSE uni

country_filter(uni, c) ==
    IF c.force_pea
    THEN SelectSeq(uni, LAMBDA r : is_pea_country(r.country_code))
    ELSE IF c.exclude_non_eee
         THEN SelectSeq(uni, LAMBDA r : r.country_code \notin EXCLUDE_ISO2)
         ELSE uni

\* (variant) the slice is missing: the whole list goes to the fetch
cap_tickers_unsliced(tks, cap) == tks

\* tickers[:int(CAP)]
cap_tickers(tks, cap) == SubSeq(tks, 1, Min(cap, Len(tks)))

\* values the user may have entered in the cap widget
cap_inputs(default) == {default, CAP_MIN, CAP_MIN + 1} \cap (CAP_MIN..CAP_MAX)

-----------------------------------------------------------------------------
(* One execution of the screener script *)

None == [kind |-> "none"]

Init ==
    /\ pc = "start"
    /\ uploaded_csv \in Uploads
    /\ cfg \in Sidebars
    /\ universe = <<>>
    /\ CAP = 0
    /\ tickers = <<>>
    /\ requested = <<>>
    /\ prices_map = <<>>
    /\ rows = <<>>
    /\ filtered = <<>>
    /\ ui = {}
    /\ download = None
    /\ st_button = FALSE
    /\ response = None
    /\ session_state = None
    /\ form = None
    /\ pea_csv = None
    /\ Close = <<>>
    /\ metrics = None

\* lines 175-184: no file, or read_csv / parse_universe raising, stops the run
Load ==
    /\ pc = "start"
    /\ UNCHANGED <<uploaded_csv, cfg, CAP, tickers, requested, prices_map, rows, filtered, download>>
    /\ UNCHANGED <<gen_vars, ind_vars>>
    /\ IF uploaded_csv.kind = "none"
       THEN /\ ui' = ui \cup {"info_no_file"}
            /\ pc' = "stopped_177"
            /\ UNCHANGED universe
       ELSE IF uploaded_csv.kind = "unreadable" \/ parse_universe_raises(uploaded_csv)
       THEN /\ ui' = ui \cup {"error_csv"}
            /\ pc' = "stopped_184"
            /\ UNCHANGED universe
       ELSE /\ universe' = parse_universe(uploaded_csv)
            /\ pc' = "parsed"
            /\ UNCHANGED ui

\* lines 186-198
CountryFilter ==
    /\ pc = "parsed"
    /\ UNCHANGED <<uploaded_csv, cfg, CAP, tickers, requested, prices_map, rows, filtered, download>>
    /\ UNCHANGED <<gen_vars, ind_vars>>
    /\ universe' = country_filter(universe, cfg)
    /\ LET note == IF cfg.force_pea THEN {"success_pea"}
                   ELSE IF cfg.exclude_non_eee THEN {"info_exclude"} ELSE {}
       IN  IF universe' = <<>>
           THEN /\ ui' = ui \cup note \cup {"warning_universe_empty"}
                /\ pc' = "stopped_198"
           ELSE /\ ui' = ui \cup note
                /\ pc' = "filtered"

\* lines 201-207: the cap widget and the slice.  number_input raises when its
\* default, min(500, len(tickers)), is below its minimum.
Cap ==
    /\ pc = "filtered"
    /\ UNCHANGED <<uploaded_csv, cfg, universe, requested, prices_map, rows, filtered, download>>
    /\ UNCHANGED <<gen_vars, ind_vars>>
    /\ LET all == [i \in 1..Len(universe) |-> universe[i].ticker]
           default == Min(CAP_DEFAULT_MAX, Len(all))
       IN  IF default < CAP_MIN
           THEN /\ ui' = ui \cup {"exception_cap_widget"}
                /\ pc' = "raised_206"
                /\ UNCHANGED <<CAP, tickers>>
           ELSE /\ CAP' \in cap_inputs(default)
                /\ tickers' = cap_tickers(all, CAP')
                /\ pc' = "capped"
                /\ UNCHANGED ui

\* lines 209-210
Fetch ==
    /\ pc = "capped"
    /\ UNCHANGED <<uploaded_csv, cfg, universe, CAP, tickers, rows, filtered, ui, download>>
    /\ UNCHANGED <<gen_vars, ind_vars>>
    /\ requested' = tickers
    /\ \E market \in Markets : prices_map' = yf_bulk(requested', market)
    /\ pc' = "fetched"

\* lines 212-263
Screen ==
    /\ pc = "fetched"
    /\ UNCHANGED <<uploaded_csv, cfg, universe, CAP, tickers, requested, prices_map, filtered, ui, download>>
    /\ UNCHANGED <<gen_vars, ind_vars>>
    /\ rows' = screen_rows(universe, prices_map, cfg)
    /\ pc' = "screened"

\* lines 265-283
Results ==
    /\ pc = "screened"
    /\ UNCHANGED <<uploaded_csv, cfg, universe, CAP, tickers, requested, prices_map, rows>>
    /\ UNCHANGED <<gen_vars, ind_vars>>
    /\ IF rows = <<>>
       THEN /\ ui' = ui \cup {"warning_no_results"}
            /\ pc' = "stopped_268"
            /\ UNCHANGED <<filtered, download>>
       ELSE /\ filtered' \in sort_values(matches(rows))
            /\ ui' = ui \cup {"dataframe_results"}
            /\ download' = [kind |-> "csv",
                            file_name |-> "screener_contraction_results.csv",
                            nrows |-> Len(filtered')]
            /\ pc' = "done"

Next == Load \/ CountryFilter \/ Cap \/ Fetch \/ Screen \/ Results

Spec == Init /\ [][Next]_vars

-----------------------------------------------------------------------------
(* Claims about the screener *)

\* position of ticker t in the country-filtered universe
UniversePos(t) == CHOOSE i \in DOMAIN universe : universe[i].ticker = t

\* the execution has reached the results stage
Evaluated == pc \in {"done", "stopped_268"}

\* C1: every row of the final ranked output has all five inputs defined and
\* satisfies close >= min_price, avg_vol_20 >= min_avg_vol,
\* bbw_percentile <= threshold, atr_pct <= max and sigma20_pct <= max.
C1_OutputRowsPassAllFive ==
    pc = "done" =>
        \A i \in DOMAIN filtered :
            LET r == filtered[i]
            IN  /\ ~isnan(r.close) /\ r.close >= cfg.min_price
                /\ ~isnan(r.avg_vol_20) /\ r.avg_vol_20 >= cfg.min_avg_vol
                /\ ~isnan(r.bbw_percentile)
                /\ r.bbw_percentile <= cfg.bbw_pct_threshold * 100
                /\ ~isnan(r.atr_pct) /\ r.atr_pct <= cfg.max_atr_pct * 10
                /\ ~isnan(r.sigma20_pct) /\ r.sigma20_pct <= cfg.max_sigma_pct * 10

\* C2: an empty universe after the country filter, or no ticker passing the
\* thresholds (also when some were evaluated), ends in a warning and a halt,
\* with no file offered for download.
C2_EmptyResultHalts ==
    /\ (pc \notin {"start", "parsed", "stopped_177", "stopped_184"} /\ universe = <<>>)
           => (pc = "stopped_198" /\ "warning_universe_empty" \in ui /\ download = None)
    /\ (Evaluated /\ matches(rows) = <<>>)
           => (pc = "stopped_268" /\ "warning_no_results" \in ui /\ download = None)

\* C3: the list handed to the price fetch is the first CAP tickers of the
\* country-filtered universe; no ticker beyond the cap is fetched or appears
\* in the results.
C3_CapBeforeFetch ==
    pc \in {"fetched", "screened", "done", "stopped_268"} =>
        LET first == { universe[i].ticker : i \in 1..Min(CAP, Len(universe)) }
        IN  /\ Len(requested) = Min(CAP, Len(universe))
            /\ \A i \in DOMAIN requested : requested[i] = universe[i].ticker
            /\ DOMAIN prices_map \subseteq first
            /\ \A i \in DOMAIN rows : rows[i].ticker \in first
            /\ \A i \in DOMAIN filtered : filtered[i].ticker \in first

C3_Witness ==
    /\ pc = "done"
    /\ CAP < Len(universe)
    /\ filtered # <<>>

\* no column is named ticker or symbol after trimming and lower-casing
NoTickerColumn(df) ==
    \A i \in DOMAIN df.cols : lower(strip(df.cols[i])) \notin {k_ticker, k_symbol}

\* C4: a table without a ticker column is a schema error: the run reports it
\* and stops; no universe rows, results or output file are produced.
C4_SchemaErrorStops ==
    (uploaded_csv.kind = "table" /\ NoTickerColumn(uploaded_csv) /\ pc # "start") =>
        /\ pc = "stopped_184"
        /\ "error_csv" \in ui
        /\ universe = <<>> /\ requested = <<>> /\ rows = <<>> /\ filtered = <<>>
        /\ download = None

C4_Witness ==
    /\ pc = "stopped_184"
    /\ uploaded_csv.kind = "table"
    /\ uploaded_csv.rows # <<>>
    /\ NoTickerColumn(uploaded_csv)

\* the universe as the loader returned it
Loaded == pc = "parsed"

\* C5: the loader's output has no two rows with the same stripped ticker, has
\* every input ticker, and each row carries the fields of the first input
\* row with its ticker.
C5_DedupFirstWins ==
    Loaded =>
        LET inp == res_rows(uploaded_csv)
        IN  /\ \A i, j \in DOMAIN universe :
                   universe[i].ticker = universe[j].ticker => i = j
            /\ \A r \in DOMAIN inp : \E i \in DOMAIN universe :
                   universe[i].ticker = inp[r].ticker
            /\ \A i \in DOMAIN universe :
                   \E r \in DOMAIN inp :
                       /\ universe[i] = inp[r]
                       /\ \A q \in 1..(r - 1) : inp[q].ticker # inp[r].ticker

C5_Witness ==
    /\ Loaded
    /\ Len(universe) = 1
    /\ Len(uploaded_csv.rows) = 2
    /\ res_rows(uploaded_csv)[1] # res_rows(uploaded_csv)[2]
    /\ uploaded_csv.rows[1][1] # uploaded_csv.rows[2][1]

\* the country filter has run
CountryFiltered == pc \in {"filtered", "stopped_198"}

\* C6: under force_pea a row is retained iff its upper-cased country code is
\* in the EU/EEA set, retained rows keep their input order, and the
\* exclusion policy is not applied in that run.
C6_AcceptedSetFilter ==
    (CountryFiltered /\ cfg.force_pea) =>
        LET before == parse_universe(uploaded_csv)
            kept == { i \in DOMAIN before : before[i].country_code \in EU_EEA_ISO2 }
        IN  /\ \A i \in DOMAIN before :
                   (i \in kept) <=> (\E j \in DOMAIN universe : universe[j] = before[i])
            /\ Len(universe) = Cardinality(kept)
            /\ \A j, k \in DOMAIN universe :
                   j < k => \E a, b \in DOMAIN before :
                                a < b /\ before[a] = universe[j] /\ before[b] = universe[k]
            /\ "info_exclude" \notin ui

C6_Witness ==
    /\ pc = "filtered"
    /\ cfg.force_pea /\ cfg.exclude_non_eee
    /\ LET before == parse_universe(uploaded_csv)
       IN  /\ Len(universe) < Len(before)
           /\ \E i \in DOMAIN before :
                  /\ before[i].country_code \notin EXCLUDE_ISO2
                  /\ \A j \in DOMAIN universe : universe[j] # before[i]

\* C7: the final output is sorted by score, descending, and rows of equal
\* score keep the relative order they have in the universe.
C7_StableDescending ==
    pc = "done" =>
        \A i, j \in DOMAIN filtered :
            i < j =>
                /\ filtered[i].contraction_score >= filtered[j].contraction_score
                /\ filtered[i].contraction_score = filtered[j].contraction_score
                       => UniversePos(filtered[i].ticker) < UniversePos(filtered[j].ticker)

-----------------------------------------------------------------------------
(* The scoring step on its own: a run that has fetched price frames for the
   first two tickers of a ten-ticker universe, over a grid of indicator
   values and two threshold settings *)

DefaultSidebar ==
    CHOOSE c \in Sidebars :
        /\ ~c.force_pea /\ ~c.exclude_non_eee
        /\ c.bb_window = BB_WINDOW_DEFAULT

\* sliders moved to bbw 50 %, ATR 3.0 %, sigma 7.0 %
WideSidebar ==
    [DefaultSidebar EXCEPT !.bbw_pct_threshold = 50, !.max_atr_pct = 30,
                           !.max_sigma_pct = 70]

ScoreFrames ==
    { Px(25, TRUE, 1000, 100000, p, a, g) :
        p \in {0, 1500, 1990, 2000, 2100},
        a \in {0, 100, 199, 200, 300},
        g \in {100, 249, 250, 300} }

InitScore ==
    /\ pc = "fetched"
    /\ uploaded_csv = BigTable(CAP_MIN, {})
    /\ cfg \in {DefaultSidebar, WideSidebar}
    /\ universe = parse_universe(uploaded_csv)
    /\ CAP = CAP_MIN
    /\ tickers = [i \in 1..Len(universe) |-> universe[i].ticker]
    /\ requested = tickers
    /\ prices_map \in [{ <<UC[1]>>, <<UC[2]>> } -> ScoreFrames]
    /\ rows = <<>>
    /\ filtered = <<>>
    /\ ui = {}
    /\ download = None
    /\ st_button = FALSE
    /\ response = None
    /\ session_state = None
    /\ form = None
    /\ pea_csv = None
    /\ Close = <<>>
    /\ metrics = None

NextScore == Screen \/ Results

SpecScore == InitScore /\ [][NextScore]_vars

\* the result rows exist
Scored == pc \in {"screened", "done", "stopped_268"}

IsRow(r, p, a, g) ==
    r.bbw_percentile = p /\ r.atr_pct = a /\ r.sigma20_pct = g

\* C10: among passing rows, a row that is no wider in bbw_percentile,
\* atr_pct and sigma20_pct has a stored score at least as high; with the
\* thresholds 20 / 2.0 / 2.5 the row (15, 1.0, 1.0) passes and scores
\* strictly higher than the row (19.9, 1.99, 2.49).
C10_ScoreMonotone ==
    Scored =>
        /\ \A i, j \in DOMAIN rows :
               ( /\ rows[i].contraction_match /\ rows[j].contraction_match
                 /\ rows[i].bbw_percentile <= rows[j].bbw_percentile
                 /\ rows[i].atr_pct <= rows[j].atr_pct
                 /\ rows[i].sigma20_pct <= rows[j].sigma20_pct )
               => rows[i].contraction_score >= rows[j].contraction_score
        /\ cfg = DefaultSidebar =>
               \A i, j \in DOMAIN rows :
                   (IsRow(rows[i], 1500, 100, 100) /\ IsRow(rows[j], 1990, 199, 249))
                   => /\ rows[i].contraction_match
                      /\ rows[j].contraction_match
                      /\ rows[i].contraction_score > rows[j].contraction_score

C10_Witness ==
    /\ pc = "screened"
    /\ cfg = DefaultSidebar
    /\ Len(rows) = 2
    /\ IsRow(rows[1], 1990, 199, 249) /\ rows[1].contraction_score = 8055
    /\ IsRow(rows[2], 1500, 100, 100) /\ rows[2].contraction_score = 14000
    /\ rows[1].contraction_match /\ rows[2].contraction_match

-----------------------------------------------------------------------------
(* Universe generation: the Euronext workbook *)

\* requests.get failing, or raise_for_status()
HttpError == [kind |-> "http_error"]
\* b"": falsy in pea_generator, unreadable for pd.read_excel
EmptyBytes == [kind |-> "empty"]
\* content that is not a workbook
NotExcel == [kind |-> "not_excel"]

Sheet(cols, rws) == [kind |-> "sheet", cols |-> cols, rows |-> rws]

GenSheets ==
    { [cols |-> << <<"N","a","m","e">>, <<"S","y","m","b","o","l">>, <<"M","a","r","k","e","t">> >>,
       rows |-> { << <<"x">>, <<"X","Y","Z">>, <<"P","a","r","i","s">> >>,
                  << <<"y">>, <<"X","Y","Z">>, <<"D","U","B","L","I","N">> >>,
                  << <<"z">>, <<"K","L","M">>, <<"F","r","a","n","c","e">> >>,
                  << <<"x">>, <<"A","B",".","P","A">>, <<"O","s","l","o">> >>,
                  << <<"y">>, <<"n","a","n">>, <<"L","i","s","b","o","n">> >> }],
      [cols |-> << <<"T","i","c","k","e","r">> >>,
       rows |-> { << <<"X","Y","Z">> >>,
                  << <<"Q",".","R">> >>,
                  << <<" ","X","Y","Z">> >> }],
      [cols |-> << <<"M","n","e","m","o">>, <<"P","a","y","s">>, <<"P","l","a","c","e">> >>,
       rows |-> { << <<"X","Y","Z">>, <<"f","r">>, <<"E","u","r","o","n","e","x","t"," ","A","m","s","t","e","r","d","a","m">> >>,
                  << <<"X"," ","Y">>, <<"b","e">>, <<"b","r","u","s","s","e","l","s">> >>,
                  << <<"X","Y","Z">>, <<"i","e">>, <<"I","r","e","l","a","n","d">> >> }],
      [cols |-> << <<"I","s","s","u","e","r">>, <<"S","e","g","m","e","n","t">> >>,
       rows |-> { << <<"x">>, <<"P","o","r","t","u","g","a","l">> >> }] }

\* a downloaded workbook has at least one row
Workbooks ==
    UNION { { Sheet(sh.cols, rws) : rws \in SeqsUpTo(sh.rows, MaxRows) \ {<<>>} } :
            sh \in GenSheets }

Responses == {HttpError, EmptyBytes, NotExcel} \cup Workbooks

ext_PA == <<".","P","A">>
ext_AS == <<".","A","S">>
ext_BR == <<".","B","R">>
ext_LS == <<".","L","S">>
ext_IR == <<".","I","R">>

s_paris       == <<"p","a","r","i","s">>
s_france      == <<"f","r","a","n","c","e">>
s_amsterdam   == <<"a","m","s","t","e","r","d","a","m">>
s_netherlands == <<"n","e","t","h","e","r","l","a","n","d","s">>
s_brussels    == <<"b","r","u","s","s","e","l","s">>
s_belgium     == <<"b","e","l","g","i","u","m">>
s_lisbon      == <<"l","i","s","b","o","n">>
s_portugal    == <<"p","o","r","t","u","g","a","l">>
s_dublin      == <<"d","u","b","l","i","n">>
s_ireland     == <<"i","r","e","l","a","n","d">>
s_Euronext    == <<"E","u","r","o","n","e","x","t">>
s_nan         == <<"n","a","n">>
s_None        == <<"N","o","n","e">>

\* first column, in column order, whose lower-cased name holds one of the
\* patterns; 0 when there is none (Python: index + 1, and -1 + 1)
find_column_idx(cols, patterns) ==
    LET hits == { i \in DOMAIN cols : \E q \in patterns : contains(lower(cols[i]), q) }
    IN  IF hits = {} THEN 0 ELSE CHOOSE i \in hits : \A j \in hits : i <= j

-----------------------------------------------------------------------------
(* pea_generator.py *)

pat_ticker == { <<"m","n","e","m","o">>,
      <<"m","n","é","m","o">>,
      <<"m","n","e","m","o","n","i","c">>,
      <<"t","i","c","k","e","r">>,
      <<"s","y","m","b","o","l">>,
      <<"c","o","d","e"," ","m","n","é","m","o">>,
      <<"m","n","e","m","o","n","i">> }
pat_name == { <<"n","o","m">>,
      <<"n","a","m","e">>,
      <<"i","s","s","u","e","r">>,
      <<"c","o","m","p","a","n","y">>,
      <<"d","é","n","o","m","i","n","a","t","i","o","n">>,
      <<"d","e","s","i","g","n","a","t","i","o","n">> }
pat_exch == { <<"m","a","r","k","e","t">>,
      <<"e","x","c","h","a","n","g","e">>,
      <<"p","l","a","c","e">>,
      <<"t","r","a","d","i","n","g">>,
      <<"v","e","n","u","e">>,
      <<"c","o","m","p","a","r","t","m","e","n","t">>,
      <<"s","e","g","m","e","n","t">> }
pat_country == { <<"p","a","y","s">>,
      <<"c","o","u","n","t","r","y">>,
      <<"i","n","c","o","r","p","o","r","a","t","i","o","n">>,
      <<"s","i","è","g","e">>,
      <<"h","e","a","d"," ","o","f","f","i","c","e">> }

\* read_any_sheet succeeds with a non-empty frame: sections 2-4 are rendered
mapping_rendered(xls) == xls.kind = "sheet" /\ xls.rows # <<>>

\* the select boxes: the ticker box offers every column (default: the
\* detected one, else the first); the optional boxes offer "<aucune>" (0)
\* and every column (default: the detected one, else "<aucune>")
pea_forms(df) ==
    LET dt == find_column_idx(df.cols, pat_ticker)
    IN  [ticker_col   : {Max(dt, 1)} \cup DOMAIN df.cols,
         name_col     : {0, find_column_idx(df.cols, pat_name)},
         exch_col     : {0, find_column_idx(df.cols, pat_exch)},
         country_col  : {0, find_column_idx(df.cols, pat_country)},
         add_suffixes : BOOLEAN,
         drop_dupes   : BOOLEAN]

\* .replace({"nan": "", "None": ""}).str.replace(r"\s+", "")
clean_ticker(t) ==
    IF t \in {s_nan, s_None} THEN <<>> ELSE SelectSeq(t, LAMBDA ch : ch # " ")

\* infer_suffix, lines 119-128
infer_suffix(ticker, exchange) ==
    LET e == lower(exchange)
    IN  IF contains(ticker, <<".">>) THEN ticker
        ELSE IF contains(e, s_paris) \/ contains(e, s_france) THEN ticker \o ext_PA
        ELSE IF contains(e, s_amsterdam) \/ contains(e, s_netherlands) THEN ticker \o ext_AS
        ELSE IF contains(e, s_brussels) \/ contains(e, s_belgium) THEN ticker \o ext_BR
        ELSE IF contains(e, s_lisbon) \/ contains(e, s_portugal) THEN ticker \o ext_LS
        ELSE IF contains(e, s_dublin) \/ contains(e, s_ireland) THEN ticker \o ext_IR
        ELSE ticker

\* out, lines 90-110: the four columns, tickers cleaned, empty tickers dropped
pea_rows(df, f) ==
    LET raw == [r \in DOMAIN df.rows |->
                  [ticker       |-> clean_ticker(strip(df.rows[r][f.ticker_col])),
                   name         |-> IF f.name_col # 0
                                    THEN strip(df.rows[r][f.name_col]) ELSE <<>>,
                   exchange     |-> IF f.exch_col # 0
                                    THEN strip(df.rows[r][f.exch_col]) ELSE s_Euronext,
                   country_code |-> IF f.country_col # 0
                                    THEN strip(df.rows[r][f.country_col]) ELSE <<>>]]
    IN  SelectSeq(raw, LAMBDA o : Len(o.ticker) > 0)

\* lines 130-139
pea_out_rows(df, f) ==
    LET cleaned == pea_rows(df, f)
        suffixed == [i \in DOMAIN cleaned |->
                       IF f.add_suffixes
                       THEN [cleaned[i] EXCEPT !.ticker =
                                infer_suffix(cleaned[i].ticker, cleaned[i].exchange)]
                       ELSE cleaned[i]]
    IN  IF f.drop_dupes THEN drop_duplicates(suffixed, {}) ELSE suffixed

PeaFile(columns, rws) ==
    [kind |-> "csv", file_name |-> "pea_univers.csv", columns |-> columns,
     rows |-> rws]

\* (variant) r.content is stored before raise_for_status(): the body of an
\* error page is kept
euronext_xls_unchecked(stored, r) ==
    IF r.kind = "http_error" THEN NotExcel ELSE r

\* lines 16-22: st.session_state["euronext_xls"] after the download handler;
\* requests.get and raise_for_status come before the assignment
euronext_xls(stored, r) ==
    IF r.kind = "http_error" THEN stored ELSE r

\* lines 52-65 and below: what a run shows for the stored bytes xls_bytes
rendering(xls_bytes) ==
    (IF xls_bytes.kind = "not_excel" THEN {"error_excel"} ELSE {})
        \cup (IF mapping_rendered(xls_bytes) THEN {"mapping"} ELSE {})

\* lines 15-24 and the rendering below: the first button is clicked
PeaDownload ==
    /\ pc = "pea_idle"
    /\ UNCHANGED <<pc, uploaded_csv, cfg, universe, CAP, tickers, requested,
                   prices_map, rows, filtered, download, st_button>>
    /\ UNCHANGED ind_vars
    /\ \E r \in Responses :
        /\ response' = r
        /\ session_state' = euronext_xls(session_state, r)
        /\ ui' = {IF r.kind = "http_error" THEN "error_download"
                                           ELSE "success_download"}
                     \cup rendering(session_state')
    /\ form' = None
    /\ pea_csv' = None

\* a run with no button clicked (a select box or a check box was changed):
\* the messages and the file of the previous run are gone
PeaRerun ==
    /\ pc = "pea_idle"
    /\ UNCHANGED <<pc, uploaded_csv, cfg, universe, CAP, tickers, requested,
                   prices_map, rows, filtered, download, st_button, response,
                   session_state>>
    /\ UNCHANGED ind_vars
    /\ ui' = rendering(session_state)
    /\ form' = None
    /\ pea_csv' = None

\* lines 86-148: the second button is clicked; it exists only when the
\* previous run rendered the mapping
PeaGenerate ==
    /\ pc = "pea_idle"
    /\ "mapping" \in ui
    /\ UNCHANGED <<pc, uploaded_csv, cfg, universe, CAP, tickers, requested,
                   prices_map, rows, filtered, download, st_button, response,
                   session_state>>
    /\ UNCHANGED ind_vars
    /\ \E f \in pea_forms(session_state) :
        /\ form' = f
        /\ pea_csv' = PeaFile(<<"ticker", "exchange", "country_code", "name">>,
                              pea_out_rows(session_state, f))
    /\ ui' = {"mapping", "success_ready"}

-----------------------------------------------------------------------------
(* screener_pea_streamlit.py: the "generate a PEA universe" section *)

scr_pat_name == { <<"n","o","m">>, <<"n","a","m","e">>, <<"i","s","s","u","e","r">>, <<"c","o","m","p","a","n","y">> }
scr_pat_ticker == { <<"t","i","c","k","e","r">>, <<"m","n","e","m","o">>, <<"s","y","m","b","o","l">> }
scr_pat_market == { <<"m","a","r","k","e","t">>, <<"e","x","c","h","a","n","g","e">>, <<"p","l","a","c","e">> }
scr_pat_country == { <<"p","a","y","s">>, <<"c","o","u","n","t","r","y">> }

\* lines 313-322: the first matching column of each kind, 0 for None
scr_form(df) ==
    [ticker_col   |-> find_column_idx(df.cols, scr_pat_ticker),
     name_col     |-> find_column_idx(df.cols, scr_pat_name),
     exch_col     |-> find_column_idx(df.cols, scr_pat_market),
     country_col  |-> find_column_idx(df.cols, scr_pat_country),
     add_suffixes |-> TRUE,
     drop_dupes   |-> TRUE]

\* lines 324-329: the columns of work, in the order they are assigned
work_columns(f) ==
    <<"ticker">> \o (IF f.name_col # 0 THEN <<"name">> ELSE <<>>)
                 \o (IF f.exch_col # 0 THEN <<"exchange">> ELSE <<>>)
                 \o <<"country_code">>

\* lines 332-341
add_suffix(t, exchange) ==
    LET e == lower(exchange)
    IN  IF contains(t, <<".">>) THEN t
        ELSE IF contains(e, s_paris) THEN t \o ext_PA
        ELSE IF contains(e, s_amsterdam) THEN t \o ext_AS
        ELSE IF contains(e, s_brussels) THEN t \o ext_BR
        ELSE IF contains(e, s_lisbon) THEN t \o ext_LS
        ELSE t

\* lines 324-344: one record per row, holding the columns of work
work_rows(df, f) ==
    LET full == [r \in DOMAIN df.rows |->
                   LET exch == IF f.exch_col # 0
                               THEN strip(df.rows[r][f.exch_col]) ELSE <<>>
                   IN [ticker       |-> add_suffix(strip(df.rows[r][f.ticker_col]), exch),
                       name         |-> IF f.name_col # 0
                                        THEN strip(df.rows[r][f.name_col]) ELSE <<>>,
                       exchange     |-> exch,
                       country_code |-> IF f.country_col # 0
                                        THEN upper(df.rows[r][f.country_col]) ELSE <<>>]]
        kept == drop_duplicates(full, {})
    IN  [i \in DOMAIN kept |-> [c \in Range(work_columns(f)) |-> kept[i][c]]]

\* lines 306-358: the button of this run is clicked; any exception (the
\* download, read_excel, row["ticker"] without a ticker column) is reported
GeneratePea ==
    /\ pc = "done"
    /\ st_button
    /\ UNCHANGED <<uploaded_csv, cfg, universe, CAP, tickers, requested,
                   prices_map, rows, filtered, download, st_button, session_state>>
    /\ UNCHANGED ind_vars
    /\ \E r \in Responses :
        /\ response' = r
        /\ IF r.kind # "sheet" \/ scr_form(r).ticker_col = 0
           THEN /\ ui' = ui \cup {"error_pea"}
                /\ UNCHANGED <<form, pea_csv>>
           ELSE /\ form' = scr_form(r)
                /\ pea_csv' = PeaFile(work_columns(form'), work_rows(r, form'))
                /\ ui' = ui \cup {"success_pea_universe"}
    /\ pc' = "end"

-----------------------------------------------------------------------------
(* Both generation paths: a screener run whose generate button is clicked,
   or a session of the pea_generator page *)

InitGen ==
    /\ \/ /\ pc = "start"
          /\ uploaded_csv = BigTable(CAP_MIN, {})
          /\ st_button = TRUE
       \/ /\ pc = "pea_idle"
          /\ uploaded_csv = NoFile
          /\ st_button = FALSE
    /\ cfg = DefaultSidebar
    /\ universe = <<>>
    /\ CAP = 0
    /\ tickers = <<>>
    /\ requested = <<>>
    /\ prices_map = <<>>
    /\ rows = <<>>
    /\ filtered = <<>>
    /\ ui = {}
    /\ download = None
    /\ response = None
    /\ session_state = None
    /\ form = None
    /\ pea_csv = None
    /\ Close = <<>>
    /\ metrics = None

NextGen ==
    \/ Load \/ CountryFilter \/ Cap \/ Fetch \/ Screen \/ Results \/ GeneratePea
    \/ PeaDownload \/ PeaGenerate \/ PeaRerun

SpecGen == InitGen /\ [][NextGen]_vars

\* the workbook the offered file was generated from
GenSource == IF pc = "pea_idle" THEN session_state ELSE response

\* the ticker and the exchange string of input row r as they enter the
\* suffix step
InTicker(r) ==
    LET t == strip(GenSource.rows[r][form.ticker_col])
    IN  IF pc = "pea_idle" THEN clean_ticker(t) ELSE t

InExchange(r) ==
    IF form.exch_col # 0 THEN strip(GenSource.rows[r][form.exch_col])
    ELSE IF pc = "pea_idle" THEN s_Euronext ELSE <<>>

HasAny(e, pats) == \E q \in pats : contains(lower(e), q)

\* the ticker the claim expects for input ticker t on exchange e
ClaimedTicker(t, e) ==
    IF \E i \in DOMAIN t : t[i] = "." THEN t
    ELSE IF HasAny(e, {s_paris, s_france}) THEN t \o ext_PA
    ELSE IF HasAny(e, {s_amsterdam, s_netherlands}) THEN t \o ext_AS
    ELSE IF HasAny(e, {s_brussels, s_belgium}) THEN t \o ext_BR
    ELSE IF HasAny(e, {s_lisbon, s_portugal}) THEN t \o ext_LS
    ELSE IF HasAny(e, {s_dublin, s_ireland}) THEN t \o ext_IR
    ELSE t

\* C8: where suffixes are added (always in the screener's section, with the
\* option ticked in pea_generator), every output ticker is an input ticker,
\* unchanged when it holds a '.', else with the suffix of its exchange:
\* .PA Paris/France, .AS Amsterdam/Netherlands, .BR Brussels/Belgium,
\* .LS Lisbon/Portugal, .IR Dublin/Ireland, none otherwise.
C8_SuffixPerExchange ==
    (pea_csv # None /\ form.add_suffixes) =>
        /\ \A i \in DOMAIN pea_csv.rows :
               \E r \in DOMAIN GenSource.rows :
                   pea_csv.rows[i].ticker = ClaimedTicker(InTicker(r), InExchange(r))
        /\ \A r \in DOMAIN GenSource.rows :
               InTicker(r) # <<>> =>
                   \E i \in DOMAIN pea_csv.rows :
                       pea_csv.rows[i].ticker = ClaimedTicker(InTicker(r), InExchange(r))

\* C9: every generated pea_univers.csv has exactly the columns
\* ticker, exchange, country_code, name, in this order.
C9_FourColumnsInOrder ==
    pea_csv # None =>
        pea_csv.columns = <<"ticker", "exchange", "country_code", "name">>

-----------------------------------------------------------------------------
(* compute_indicators: the Bollinger band width and its percentile *)

\* bb_std's default, in tenths
BB_STD_DEFAULT == 20

\* most rows of a price frame whose band width is computed row by row
MaxCloses == 13

\* closing prices, in units; 0 is the close of a halted line
PriceLevels == {0, 1}

\* px["Close"] after yf_bulk's dropna(): no missing value, at least one row
CloseSeries ==
    UNION { [1..n -> PriceLevels] : n \in (BB_WINDOW_MIN - 1)..MaxCloses }

\* a float that is either a ratio num/den of integers, den > 0, or NaN
nan == [num |-> 0, den |-> 0]
notna(x) == x.den # 0
\* x <= y; False when either side is NaN
le(x, y) == notna(x) /\ notna(y) /\ x.num * y.den <= y.num * x.den

\* sum of s over the w rows ending at row i
RECURSIVE window_sum(_, _, _)
window_sum(s, i, w) ==
    IF w = 0 THEN 0 ELSE s[i] + window_sum(s, i - 1, w - 1)

\* lines 101-105 at row i, squared: bbw = 2 * bb_std * stdev / sma, with
\* sma = S1/w and stdev^2 = S2/w - (S1/w)^2 (ddof = 0), so that
\* bbw^2 = 4 * bb_std^2 * (w*S2 - S1^2) / S1^2; bb_std is in tenths, and
\* 4/100 = 1/25.  rolling(w) is NaN on the
\* first w-1 rows; 0/0 is NaN.  The band width is never negative here, so
\* comparing squares is comparing band widths.
bbw_at(close, i, bb_win, bb_std) ==
    IF i < bb_win THEN nan
    ELSE LET S1 == window_sum(close, i, bb_win)
             S2 == window_sum([j \in DOMAIN close |-> close[j] * close[j]], i, bb_win)
         IN  IF S1 = 0 THEN nan
             ELSE [num |-> bb_std * bb_std * (bb_win * S2 - S1 * S1),
                   den |-> 25 * S1 * S1]

\* df["bbw"]
bbw(close, bb_win, bb_std) ==
    [i \in DOMAIN close |-> bbw_at(close, i, bb_win, bb_std)]

dropna(series) == SelectSeq(series, notna)

\* (variant) the rank counts the values strictly below the last one
last_percentile_strict(series) ==
    LET s == dropna(series)
    IN  IF s = <<>> THEN nan
        ELSE [num |-> 100 * Len(SelectSeq(s, LAMBDA v : ~le(s[Len(s)], v))),
              den |-> Len(s)]

\* lines 110-116: (s <= last).mean() * 100.0
last_percentile(series) ==
    LET s == dropna(series)
    IN  IF s = <<>> THEN nan
        ELSE [num |-> 100 * Len(SelectSeq(s, LAMBDA v : le(v, s[Len(s)]))),
              den |-> Len(s)]

\* lines 98-116 and 138-147, for the Close column: the last close, the last
\* band width and the percentile of the band width
ComputeIndicators ==
    /\ pc = "indicators"
    /\ pc' = "indicators_done"
    /\ metrics' = [close          |-> Close[Len(Close)],
                   bbw            |-> bbw(Close, cfg.bb_window, BB_STD_DEFAULT)[Len(Close)],
                   bbw_percentile |-> last_percentile(bbw(Close, cfg.bb_window, BB_STD_DEFAULT))]
    /\ UNCHANGED <<uploaded_csv, cfg, universe, CAP, tickers, requested,
                   prices_map, rows, filtered, ui, download, Close>>
    /\ UNCHANGED gen_vars

\* one call of compute_indicators from the results loop (line 220)
InitInd ==
    /\ pc = "indicators"
    /\ Close \in CloseSeries
    /\ cfg \in { c \in Sidebars : ~c.force_pea /\ ~c.exclude_non_eee }
    /\ metrics = None
    /\ uploaded_csv = NoFile
    /\ universe = <<>>
    /\ CAP = 0
    /\ tickers = <<>>
    /\ requested = <<>>
    /\ prices_map = <<>>
    /\ rows = <<>>
    /\ filtered = <<>>
    /\ ui = {}
    /\ download = None
    /\ st_button = FALSE
    /\ response = None
    /\ session_state = None
    /\ form = None
    /\ pea_csv = None

NextInd == ComputeIndicators

SpecInd == InitInd /\ [][NextInd]_vars

\* the band-width history of the frame, row by row
History == bbw(Close, cfg.bb_window, BB_STD_DEFAULT)
\* the rows of history h with a defined band width
Defined(h) == { i \in DOMAIN h : notna(h[i]) }
\* the latest of them
Latest(h) == LET D == Defined(h) IN CHOOSE i \in D : \A j \in D : j <= i
\* the rows whose band width is defined and at most the latest defined one
AtMostLatest(h) ==
    LET last == h[Latest(h)]
    IN  { i \in Defined(h) : h[i].num * last.den <= last.num * h[i].den }

\* C11: once computed, bbw_percentile is NaN when no band width of the
\* history is defined; otherwise it is 100 * (number of defined band widths
\* <= the latest defined one) / (number of defined band widths), counted over
\* the whole history, and so 100 when the latest is the largest.
C11_PercentileOfLatest ==
    pc = "indicators_done" =>
        LET h == History
            n == Cardinality(Defined(h))
            k == Cardinality(AtMostLatest(h))
            p == metrics.bbw_percentile
        IN  IF n = 0
            THEN ~notna(p)
            ELSE /\ notna(p)
                 /\ p.num * n = 100 * k * p.den
                 /\ (k = n) => p.num = 100 * p.den

\* a history with an undefined start, three defined band widths, the latest
\* neither the smallest nor the largest: the percentile is 200/3
C11_Witness ==
    /\ pc = "indicators_done"
    /\ metrics.bbw_percentile = [num |-> 200, den |-> 3]
    /\ Defined(History) # DOMAIN History
    /\ Cardinality(Defined(History)) = 3
    /\ Cardinality(AtMostLatest(History)) = 2

\* a step of the pea_generator page
PeaStep == pc = "pea_idle" /\ pc' = "pea_idle"

\* sections 2-4 of the page (mapping, options, generation) are shown, or a
\* generated file is offered
MappingReached == "mapping" \in ui \/ pea_csv # None

\* C12: on the pea_generator page, the mapping and the generation are reached
\* only with a workbook stored by a successful download; the stored workbook
\* changes only in a download that succeeds, which stores the content
\* received; a download that fails shows an error and stores nothing.
C12_OnlySuccessfulDownloadStores ==
    /\ [](pc = "pea_idle" =>
            /\ MappingReached => session_state \in Workbooks
            /\ session_state # None => session_state \in Responses \ {HttpError})
    /\ [][PeaStep =>
            /\ session_state' # session_state =>
                   /\ PeaDownload
                   /\ response'.kind # "http_error"
                   /\ session_state' = response'
            /\ (PeaDownload /\ response'.kind = "http_error") =>
                   /\ session_state' = session_state
                   /\ "error_download" \in ui'
                   /\ "success_download" \notin ui'
            /\ (PeaDownload /\ response'.kind # "http_error") =>
                   /\ session_state' = response'
                   /\ "error_download" \notin ui']_vars

\* a download has just failed after an earlier one stored a workbook: the
\* error is shown and the mapping is still there
C12_Witness ==
    /\ pc = "pea_idle"
    /\ response = HttpError
    /\ "error_download" \in ui
    /\ "mapping" \in ui
    /\ session_state \in Workbooks

====
